---- MODULE Spec2Model ----
(***************************************************************************)
(* State-machine model of the stock-accounting, purchasing and payment     *)
(* core of der_backend (Django / Django REST framework).                   *)
(*                                                                         *)
(* The database tables are the variables; every request handler is one or  *)
(* more actions.  A handler is split in two actions exactly where the code *)
(* reads the database in one place and writes it in another with no lock   *)
(* held in between, so that the interleavings of concurrent requests are   *)
(* the ones the deployed program has.                                      *)
(*                                                                         *)
(* Its specifications:                                                     *)
(*   Spec          inventory: POS sale, manual adjustment, order checkout  *)
(*   SpecSales     POS sales alone, with larger quantities                 *)
(*   SpecReception stock receptions against purchase-order items           *)
(*   SpecPO        purchase-order numbering                                *)
(*   SpecPOEdit    creation and update of one purchase order's lines       *)
(*   SpecPayment   the control-number payment webhook                      *)
(*   SpecPaymentFault  the same, when the order update can fail            *)
(*   SpecPOReceive one purchase order edited a line at a time, received    *)
(*   SpecLicence   concurrent license-key assignment                       *)
(*   SpecShipping  internal shipment requests                              *)
(*   SpecOtp       one-time codes: generation and verification             *)
(***************************************************************************)
EXTENDS Integers, Sequences, FiniteSets, TLC

None == "None"

\* ------------------------------------------------------------------ bounds
MaxStock    == 1   \* initial quantity_in_stock of a SKU is in 0..MaxStock
MaxQty      == 1   \* largest quantity on a sale line / adjustment
MaxLines    == 2   \* most lines in one POS sale request
MaxOrderLines == 1 \* most physical lines in one customer order
MaxOrdered  == 3   \* PurchaseOrderItem.quantity_ordered is MaxOrdered - 1 or MaxOrdered
MaxReceived == 1   \* largest quantity_received / decayed_products in a request
MaxAmount   == 2   \* largest amount_due / webhook amount
MaxTime     == 1   \* the clock runs from 0 to MaxTime
MaxEdits    == 3   \* requests made on the purchase order in one behaviour
MaxItems    == 2   \* most line items in one purchase-order request
MaxPhysicalItems == 2  \* most physical line items of a customer order
MaxReceptions == 2 \* StockReception rows inserted in one behaviour

SKUs      == {"s1", "s2"}
Requests  == {"r1", "r2"}      \* HTTP requests, each served by its own handler
Processes == {"p1", "p2"}      \* server processes the handlers run in
UnitPrices == {3}
POItems   == {"i1", "i2"}      \* PurchaseOrderItem rows
Creators  == {"c1", "c2", "c3"} \* concurrent purchase-order create requests
Payments  == {"pay1", "pay2"}   \* Payment rows, each with its LocalPaymentDetails
Orders    == {"o1", "o2"}
ControlNumbers == {"cn1", "cn2"}
TxIds     == {"t1", "t2"}       \* transaction ids the gateway sends
Deliveries == {"d1", "d2"}      \* webhook deliveries
Licenses  == {"k1", "k2"}       \* SoftwareLicense rows, in created_at order
DigitalProducts == {"dp1", "dp2"}
Callers   == {"a1", "a2"}       \* concurrent assign-key calls
Products  == {"pA", "pB"}       \* Product rows a purchase order can list
ShipCallers == {"h1", "h2", "h3"}  \* internal shipment-request calls
UnitCosts == {2}                \* unit_cost, in whole currency units
OrderedQuantities == {1, 2}     \* quantity_ordered of a submitted line
PoStatuses == {"DRAFT", "SENT"}

MaxOtps == 2                    \* one-time codes generated in a behaviour
MaxOtpTime == 6                 \* the clock of the one-time codes, in minutes
OTP_EXPIRATION_TIME_MINUTES == 5
OtpUser == "u1"                 \* the one account, and its phone number
OtpPhone == "ph1"
OtpCodes == {"111111", "222222"}
TokenTypes == {"registration", "login"}
OtpCallers == {"v1", "v2"}      \* concurrent verify_otp calls

VARIABLES
    \* ---- inventory tables
    quantity_in_stock,   \* Inventory.quantity_in_stock, per SKU
    initial_stock,       \* quantity_in_stock when the ledger was empty
    stockMovements,      \* StockMovement table, in insertion order
    sales,               \* Sale table, each row with its SaleItem rows
    \* ---- per-process / per-request state
    inventory_updates,   \* SaleTransactionSerializer._inventory_updates
    process,             \* the server process that serves each request
    pc,                  \* where the handler of each request is
    request,             \* the body of each request, once received
    snapshot,            \* Inventory object cached by validate_product_sku
    response,            \* HTTP status each request was answered with
    \* ---- purchasing: stock receptions
    quantity_ordered,    \* PurchaseOrderItem.quantity_ordered, per item
    receptions,          \* StockReception table
    receptionSeq,        \* last primary key the StockReception table gave out
    receptionRequest,    \* the last reception request received
    receptionResponse,   \* HTTP status it was answered with
    \* ---- purchasing: purchase-order numbering
    po_numbers,          \* po_number of every PurchaseOrder row
    current_year,        \* datetime.date.today().year
    poPc,                \* where each PurchaseOrder.save() call is
    poNumber,            \* self.po_number of the instance being saved
    poResult,            \* outcome of each create request
    \* ---- payments
    payment_status,      \* Payment.status
    payment_transaction_id, \* Payment.transaction_id
    amount_due,          \* Payment.amount_due
    payment_order,       \* Payment.order
    control_number,      \* LocalPaymentDetails.control_number of the payment
    expiry_time,         \* LocalPaymentDetails.expiry_time of the payment
    now,                 \* timezone.now()
    order_status,        \* Order.order_status
    fulfillCount,        \* calls of fulfill_order made for each payment
    rowLock,             \* webhook holding the LocalPaymentDetails row lock
    webhookPc,           \* where each webhook delivery is
    webhookData,         \* request.data of each delivery
    webhookSeen,         \* the payment as the delivery loaded it
    webhookResponse,     \* how each delivery was answered
    cnRequest,           \* order_id of the last control-number request
    cnResponse,          \* HTTP status it was answered with
    \* ---- licence
    is_assigned,         \* SoftwareLicense.is_assigned
    assigned_to_order,   \* SoftwareLicense.assigned_to_order
    license_product,     \* SoftwareLicense.product
    digital_access,      \* CustomerDigitalAccess rows, as (product, order)
    licenseLock,         \* caller holding the row lock of each license
    assignPc,            \* where each assign-key call is
    assignRequest,       \* validated data of each call
    assignLicense,       \* the license the call found, or None
    assignResponse,      \* HTTP status each call was answered with
    \* ---- purchasing: one purchase order and its line items
    po_saved,            \* the PurchaseOrder row exists
    order_total,         \* PurchaseOrder.order_total
    po_status,           \* PurchaseOrder.po_status
    purchase_order_items,\* PurchaseOrderItem rows of the order
    itemSeq,             \* last primary key the PurchaseOrderItem table gave out
    received_items,      \* ids of the items StockReception rows point to
    item_accounted,      \* quantity_received + decayed_products summed per item id
    editCount,           \* requests made on the order so far
    editRequest,         \* the last request
    editResponse,        \* HTTP status it was answered with
    \* ---- shipping: shipment requests
    physical_items,      \* OrderItemPhysical rows of each order
    shipment_requests,   \* orders that have a ShipmentRequest row
    shipments,           \* Shipment rows, as (id, order of the request)
    shipment_line_items, \* ShipmentLineItem rows
    shipmentSeq,         \* last primary key the Shipment table gave out
    shipPc,              \* where each internal-request call is
    shipOrder,           \* order_id of each call
    shipSawRequest,      \* what the exists() check of each call returned
    shipResponse,        \* HTTP status each call was answered with
    \* ---- accounts: one-time codes
    otps,                \* Otp table
    otpSeq,              \* last primary key the Otp table gave out
    otpNow,              \* timezone.now(), in minutes
    user_is_verified,    \* User.is_verified of the account
    otpResponse,         \* HTTP status of the last generate_new_otp
    verifyPc,            \* where each verify_otp call is
    verifyRequest,       \* code and token_type of each call
    verifyEntry,         \* otp_entry each call holds in memory
    verifyResponse       \* HTTP status each call was answered with

stockVars == <<quantity_in_stock, initial_stock, stockMovements, sales,
               inventory_updates, process, pc, request, snapshot, response>>

dbStock == <<quantity_in_stock, stockMovements, sales>>

receptionVars == <<quantity_ordered, receptions, receptionSeq, receptionRequest,
                   receptionResponse>>

poVars == <<po_numbers, current_year, poPc, poNumber, poResult>>

paymentVars == <<payment_status, payment_transaction_id, amount_due, payment_order,
                 control_number, expiry_time, now, order_status, fulfillCount,
                 rowLock, webhookPc, webhookData, webhookSeen, webhookResponse,
                 cnRequest, cnResponse>>

licenceVars == <<is_assigned, assigned_to_order, license_product, digital_access,
                 licenseLock, assignPc, assignRequest, assignLicense, assignResponse>>

editVars == <<po_saved, order_total, po_status, purchase_order_items, itemSeq,
              received_items, item_accounted, editCount, editRequest, editResponse>>

shippingVars == <<physical_items, shipment_requests, shipments, shipment_line_items,
                  shipmentSeq, shipPc, shipOrder, shipSawRequest, shipResponse>>

otpVars == <<otps, otpSeq, otpNow, user_is_verified, otpResponse, verifyPc,
             verifyRequest, verifyEntry, verifyResponse>>

\* what the requests of one subsystem leave alone
otherThanStock == <<receptionVars, poVars, paymentVars, licenceVars, editVars, shippingVars,
    otpVars>>
otherThanReception == <<stockVars, poVars, paymentVars, licenceVars, editVars, shippingVars,
    otpVars>>
otherThanPO == <<stockVars, receptionVars, paymentVars, licenceVars, editVars, shippingVars,
    otpVars>>
otherThanPayment == <<stockVars, receptionVars, poVars, licenceVars, editVars, shippingVars,
    otpVars>>
otherThanLicence == <<stockVars, receptionVars, poVars, paymentVars, editVars, shippingVars,
    otpVars>>
otherThanEdit == <<stockVars, receptionVars, poVars, paymentVars, licenceVars, shippingVars,
    otpVars>>
otherThanShipping == <<stockVars, receptionVars, poVars, paymentVars, licenceVars, editVars,
    otpVars>>
otherThanOtp == <<stockVars, receptionVars, poVars, paymentVars, licenceVars, editVars,
    shippingVars>>

\* ------------------------------------------------------------ pure helpers
RECURSIVE SumSeq(_, _)
SumSeq(f, n) == IF n = 0 THEN 0 ELSE f[n] + SumSeq(f, n - 1)

\* the lines a POS request may carry
SaleLine == [product_specification : SKUs, quantity : 1..MaxQty, unit_price : UnitPrices]
SaleItemLists == UNION {[1..n -> SaleLine] : n \in 0..MaxLines}

\* sum of quantity_change over the StockMovement rows of one SKU
LedgerSum(sku) ==
    SumSeq([k \in 1..Len(stockMovements) |->
              IF stockMovements[k].product = sku
              THEN stockMovements[k].quantity_change ELSE 0],
           Len(stockMovements))

\* ------------------------------------------- SaleTransactionSerializer.validate
InsufficientStockOffByOne(quantity, stock) == quantity > stock + 1

\* Check 2 of validate: the line's quantity against the row read by validate
InsufficientStock(quantity, stock) == quantity > stock

\* self._inventory_updates[pk] = {...}: a dict keeps the position of a key
\* that is assigned again and appends a new key
CachePut(cache, pk, quantity) ==
    IF \E k \in 1..Len(cache) : cache[k].pk = pk
    THEN [k \in 1..Len(cache) |->
            IF cache[k].pk = pk THEN [pk |-> pk, quantity_sold |-> quantity]
            ELSE cache[k]]
    ELSE Append(cache, [pk |-> pk, quantity_sold |-> quantity])

\* the for-loop of validate from line i on: stops at the first line that
\* fails Check 2; the lines before it have already been cached
RECURSIVE ValidateFrom(_, _, _, _)
ValidateFrom(items, i, cache, total) ==
    IF i > Len(items)
    THEN [ok |-> TRUE, cache |-> cache, total_amount |-> total]
    ELSE IF InsufficientStock(items[i].quantity,
                              quantity_in_stock[items[i].product_specification])
         THEN [ok |-> FALSE, cache |-> cache, total_amount |-> total]
         ELSE ValidateFrom(items, i + 1,
                           CachePut(cache, items[i].product_specification,
                                    items[i].quantity),
                           total + items[i].quantity * items[i].unit_price)

\* POST /sales-records/ up to is_valid(): runs outside any transaction and
\* takes no lock
SaleValidate(w, items) ==
    /\ pc[w] = "new"
    /\ LET v == IF items = <<>>
                THEN [ok |-> FALSE, cache |-> inventory_updates[process[w]],
                      total_amount |-> 0]
                ELSE ValidateFrom(items, 1, inventory_updates[process[w]], 0)
       IN /\ inventory_updates' = [inventory_updates EXCEPT ![process[w]] = v.cache]
          /\ request' = [request EXCEPT ![w] =
                            [kind |-> "sale", items |-> items,
                             total_amount |-> v.total_amount]]
          /\ IF v.ok
             THEN /\ pc' = [pc EXCEPT ![w] = "sale_validated"]
                  /\ response' = [response EXCEPT ![w] = None]
             ELSE /\ pc' = [pc EXCEPT ![w] = "done"]
                  /\ response' = [response EXCEPT ![w] = "400"]
    /\ UNCHANGED <<quantity_in_stock, initial_stock, stockMovements, sales,
                   process, snapshot>>
    /\ UNCHANGED otherThanStock

\* --------------------------------------------- SaleTransactionSerializer.create
\* next(item for item in items_data if item[...].pk == product_id)
HasPayload(items, pk) == \E i \in 1..Len(items) : items[i].product_specification = pk
FirstPayload(items, pk) ==
    items[CHOOSE i \in 1..Len(items) :
            /\ items[i].product_specification = pk
            /\ \A j \in 1..(i - 1) : items[j].product_specification # pk]

\* quantity_in_stock = F('quantity_in_stock') - quantity_sold, on the row as
\* the database holds it when the UPDATE runs
DecrementStock(stock, quantity_sold) == stock - quantity_sold

CacheQty(cache, sku) ==
    IF \E k \in 1..Len(cache) : cache[k].pk = sku
    THEN (CHOOSE e \in {cache[k] : k \in 1..Len(cache)} : e.pk = sku).quantity_sold
    ELSE 0

\* serializer.save(): one transaction.  The loop runs over every key of the
\* class-level dict; a key with no line in this request makes next() raise
\* StopIteration, which aborts the request and rolls the transaction back
SaleCreate(w) ==
    /\ pc[w] = "sale_validated"
    /\ LET cache == inventory_updates[process[w]]
           items == request[w].items
           sale_id == Len(sales) + 1
       IN IF \E k \in 1..Len(cache) : ~HasPayload(items, cache[k].pk)
          THEN /\ response' = [response EXCEPT ![w] = "500"]
               /\ UNCHANGED dbStock
          ELSE /\ sales' = Append(sales,
                      [id |-> sale_id,
                       total_amount |-> request[w].total_amount,
                       items |-> [k \in 1..Len(cache) |->
                          [product_specification |-> cache[k].pk,
                           quantity |-> cache[k].quantity_sold,
                           unit_price |-> FirstPayload(items, cache[k].pk).unit_price]]])
               /\ stockMovements' = stockMovements \o
                      [k \in 1..Len(cache) |->
                          [product |-> cache[k].pk,
                           movement_type |-> "SALE",
                           quantity_change |-> 0 - cache[k].quantity_sold,
                           reference_id |-> <<"SALE", sale_id>>]]
               /\ quantity_in_stock' =
                      [s \in SKUs |-> DecrementStock(quantity_in_stock[s],
                                                     CacheQty(cache, s))]
               /\ response' = [response EXCEPT ![w] = "201"]
    /\ pc' = [pc EXCEPT ![w] = "done"]
    /\ UNCHANGED <<initial_stock, inventory_updates, process, request, snapshot>>
    /\ UNCHANGED otherThanStock

\* ------------------------------------------------- StockAdjustmentSerializer
AdjustmentQuantities == (0 - MaxQty)..MaxQty

\* validate_adjustment_quantity: zero is refused; a removal is checked
\* against the Inventory object fetched by validate_product_sku
AdjustmentRejected(value, current_stock) ==
    \/ value = 0
    \/ value < 0 /\ (0 - value) > current_stock

\* is_valid() of POST /management/adjust-stock/: outside any transaction
AdjustValidate(w, sku, value) ==
    /\ pc[w] = "new"
    /\ request' = [request EXCEPT ![w] =
                      [kind |-> "adjust", product_sku |-> sku,
                       adjustment_quantity |-> value]]
    /\ IF AdjustmentRejected(value, quantity_in_stock[sku])
       THEN /\ response' = [response EXCEPT ![w] = "400"]
            /\ pc' = [pc EXCEPT ![w] = "done"]
            /\ UNCHANGED snapshot
       ELSE /\ response' = [response EXCEPT ![w] = None]
            /\ pc' = [pc EXCEPT ![w] = "adjust_validated"]
            /\ snapshot' = [snapshot EXCEPT ![w] = quantity_in_stock[sku]]
    /\ UNCHANGED <<quantity_in_stock, initial_stock, stockMovements, sales,
                   inventory_updates, process>>
    /\ UNCHANGED otherThanStock

\* inventory_item.quantity_in_stock += adjustment_quantity, on the object
\* cached at validation, then save(update_fields=[...]) of that value
AdjustedStock(cached_stock, current_stock, value) == cached_stock + value

\* save(): one transaction
AdjustSave(w) ==
    /\ pc[w] = "adjust_validated"
    /\ LET sku == request[w].product_sku
           value == request[w].adjustment_quantity
       IN /\ stockMovements' = Append(stockMovements,
                 [product |-> sku, movement_type |-> "ADJUST",
                  quantity_change |-> value, reference_id |-> <<"reason">>])
          /\ quantity_in_stock' =
                 [quantity_in_stock EXCEPT ![sku] =
                     AdjustedStock(snapshot[w], quantity_in_stock[sku], value)]
    /\ response' = [response EXCEPT ![w] = "200"]
    /\ pc' = [pc EXCEPT ![w] = "done"]
    /\ UNCHANGED <<initial_stock, sales, inventory_updates, process, request,
                   snapshot>>
    /\ UNCHANGED otherThanStock

\* ------------------------------------------------ SalesOrderSerializer.create
OrderLine == [product : SKUs, quantity : 1..MaxQty]
OrderLineLists == UNION {[1..n -> OrderLine] : n \in 0..MaxOrderLines}

\* product_spec.price and digital_product.price: neither ProductSpecification
\* nor DigitalProduct defines `price`, so reading it raises AttributeError
PriceLookupRaises == TRUE

\* the rows the transaction of OrderViewSet.create commits: the loop reads the
\* Inventory row, checks it (ValidationError, answered 400), decrements and
\* saves it, then prices the line (AttributeError, answered 500)
RECURSIVE CheckoutFrom(_, _, _)
CheckoutFrom(physical, i, stock) ==
    IF i > Len(physical)
    THEN [ok |-> TRUE, stock |-> stock, code |-> "201"]
    ELSE LET sku == physical[i].product
             qty == physical[i].quantity
         IN IF stock[sku] < qty
            THEN [ok |-> FALSE, stock |-> stock, code |-> "400"]
            ELSE IF PriceLookupRaises
                 THEN [ok |-> FALSE, stock |-> [stock EXCEPT ![sku] = @ - qty],
                       code |-> "500"]
                 ELSE CheckoutFrom(physical, i + 1, [stock EXCEPT ![sku] = @ - qty])

\* POST /orders/: validate() refuses an order with no item; everything else
\* runs in one transaction, which an exception rolls back as a whole
OrderCheckout(w, physical, digital) ==
    /\ pc[w] = "new"
    /\ request' = [request EXCEPT ![w] =
                      [kind |-> "order", physical |-> physical, digital |-> digital]]
    /\ IF physical = <<>> /\ ~digital
       THEN /\ response' = [response EXCEPT ![w] = "400"]
            /\ UNCHANGED quantity_in_stock
       ELSE LET tx == CheckoutFrom(physical, 1, quantity_in_stock)
                committed == tx.ok /\ ~(digital /\ PriceLookupRaises)
            IN /\ quantity_in_stock' = IF committed THEN tx.stock ELSE quantity_in_stock
               /\ response' = [response EXCEPT ![w] =
                      IF committed THEN "201"
                      ELSE IF tx.ok THEN "500" ELSE tx.code]
    /\ pc' = [pc EXCEPT ![w] = "done"]
    /\ UNCHANGED <<initial_stock, stockMovements, sales, inventory_updates,
                   process, snapshot>>
    /\ UNCHANGED otherThanStock

\* ------------------------------------------------------- inventory: Init, Next
InitStock ==
    /\ quantity_in_stock \in [SKUs -> 0..MaxStock]
    /\ initial_stock = quantity_in_stock
    /\ stockMovements = <<>>
    /\ sales = <<>>
    /\ inventory_updates = [p \in Processes |-> <<>>]
    /\ process \in {[w \in Requests |-> IF w = "r1" THEN "p1" ELSE p] : p \in Processes}
    /\ pc = [w \in Requests |-> "new"]
    /\ request = [w \in Requests |-> [kind |-> None]]
    /\ snapshot = [w \in Requests |-> 0]
    /\ response = [w \in Requests |-> None]

NextStock ==
    \/ \E w \in Requests, items \in SaleItemLists : SaleValidate(w, items)
    \/ \E w \in Requests : SaleCreate(w)
    \/ \E w \in Requests, sku \in SKUs, value \in AdjustmentQuantities :
          AdjustValidate(w, sku, value)
    \/ \E w \in Requests : AdjustSave(w)
    \/ \E w \in Requests, physical \in OrderLineLists, digital \in BOOLEAN :
          OrderCheckout(w, physical, digital)

\* POS sales alone, at a counter with more stock and larger baskets
WideSaleLine ==
    [product_specification : SKUs, quantity : 1..(MaxQty + 1), unit_price : UnitPrices]
WideSaleItemLists == UNION {[1..n -> WideSaleLine] : n \in 0..MaxLines}

InitSales ==
    /\ quantity_in_stock \in [SKUs -> MaxStock..(MaxStock + 1)]
    /\ initial_stock = quantity_in_stock
    /\ stockMovements = <<>>
    /\ sales = <<>>
    /\ inventory_updates = [p \in Processes |-> <<>>]
    /\ process \in {[w \in Requests |-> IF w = "r1" THEN "p1" ELSE p] : p \in Processes}
    /\ pc = [w \in Requests |-> "new"]
    /\ request = [w \in Requests |-> [kind |-> None]]
    /\ snapshot = [w \in Requests |-> 0]
    /\ response = [w \in Requests |-> None]

NextSales ==
    \/ \E w \in Requests, items \in WideSaleItemLists : SaleValidate(w, items)
    \/ \E w \in Requests : SaleCreate(w)

\* ============================================== purchasing: stock receptions
RECURSIVE SumAccounted(_)
\* Sum(F('quantity_received') + F('decayed_products')) over a set of rows
SumAccounted(rows) ==
    IF rows = {} THEN 0
    ELSE LET x == CHOOSE y \in rows : TRUE
         IN x.quantity_received + x.decayed_products + SumAccounted(rows \ {x})

\* clean(): the rows of the same purchase_order_item, without the record
\* itself when it already has a primary key (pk 0: a record not yet saved)
PriorRows(item, pk) ==
    {x \in receptions : x.purchase_order_item = item /\ x.pk # pk}

PriorAccounted(item, pk) == SumAccounted(PriorRows(item, pk))

GrandTotalIgnoringDecayed(prior_accounted, quantity_received, decayed) ==
    prior_accounted + quantity_received

\* clean(): current_record_accounted and grand_total_accounted
GrandTotalAccounted(prior_accounted, quantity_received, decayed) ==
    prior_accounted + (quantity_received + decayed)

\* StockReception.clean(): the field the ValidationError names, or None
CleanError(pk, item, quantity_received, decayed) ==
    IF decayed > quantity_received
    THEN "decayed_products"
    ELSE IF GrandTotalAccounted(PriorAccounted(item, pk), quantity_received, decayed)
               > quantity_ordered[item]
         THEN "quantity_received"
         ELSE None

ReceivedQuantities == 0..MaxReceived

\* POST /receptions/: StockReceptionSerializer.validate runs full_clean() on
\* a new instance, then save() runs it again and inserts the row
ReceptionCreate(item, r, d) ==
    /\ CleanError(0, item, r, d) # None \/ receptionSeq < MaxReceptions
    /\ receptionRequest' = [op |-> "create", pk |-> 0, purchase_order_item |-> item,
                            quantity_received |-> r, decayed_products |-> d]
    /\ IF CleanError(0, item, r, d) # None
       THEN /\ receptionResponse' = "400"
            /\ UNCHANGED <<receptions, receptionSeq>>
       ELSE /\ receptions' = receptions \cup
                   {[pk |-> receptionSeq + 1, purchase_order_item |-> item,
                     quantity_received |-> r, decayed_products |-> d]}
            /\ receptionSeq' = receptionSeq + 1
            /\ receptionResponse' = "201"
    /\ UNCHANGED quantity_ordered
    /\ UNCHANGED otherThanReception

\* PUT /receptions/<pk>/: validate sets the new values on the existing
\* instance and runs full_clean(); save() runs it again and updates the row
ReceptionUpdate(row, item, r, d) ==
    /\ row \in receptions
    /\ receptionRequest' = [op |-> "update", pk |-> row.pk, purchase_order_item |-> item,
                            quantity_received |-> r, decayed_products |-> d]
    /\ IF CleanError(row.pk, item, r, d) # None
       THEN /\ receptionResponse' = "400"
            /\ UNCHANGED receptions
       ELSE /\ receptions' = (receptions \ {row}) \cup
                   {[pk |-> row.pk, purchase_order_item |-> item,
                     quantity_received |-> r, decayed_products |-> d]}
            /\ receptionResponse' = "200"
    /\ UNCHANGED <<quantity_ordered, receptionSeq>>
    /\ UNCHANGED otherThanReception

\* DELETE /receptions/<pk>/ (ModelViewSet.destroy)
ReceptionDestroy(row) ==
    /\ row \in receptions
    /\ receptionRequest' = [op |-> "destroy", pk |-> row.pk,
                            purchase_order_item |-> row.purchase_order_item,
                            quantity_received |-> 0, decayed_products |-> 0]
    /\ receptions' = receptions \ {row}
    /\ receptionResponse' = "204"
    /\ UNCHANGED <<quantity_ordered, receptionSeq>>
    /\ UNCHANGED otherThanReception

InitReception ==
    /\ quantity_ordered \in [POItems -> (MaxOrdered - 1)..MaxOrdered]
    /\ receptions = {}
    /\ receptionSeq = 0
    /\ receptionRequest = [op |-> None, pk |-> 0, purchase_order_item |-> None,
                           quantity_received |-> 0, decayed_products |-> 0]
    /\ receptionResponse = None

NextReception ==
    \/ \E item \in POItems, r \in ReceivedQuantities, d \in ReceivedQuantities :
          ReceptionCreate(item, r, d)
    \/ \E row \in receptions, item \in POItems,
          r \in ReceivedQuantities, d \in ReceivedQuantities :
          ReceptionUpdate(row, item, r, d)
    \/ \E row \in receptions : ReceptionDestroy(row)

\* ======================================== purchasing: purchase-order numbers
PadWidth == 4

RECURSIVE Digits(_)
\* the decimal digits of n, most significant first
Digits(n) == IF n < 10 THEN <<n>> ELSE Append(Digits(n \div 10), n % 10)

RECURSIVE ZeroPad(_, _)
ZeroPad(ds, width) == IF Len(ds) >= width THEN ds ELSE ZeroPad(<<0>> \o ds, width)

\* f'{next_sequence:04d}'
FormatSequence(n) == ZeroPad(Digits(n), PadWidth)

RECURSIVE ParseInt(_)
\* int(last_sequence_str)
ParseInt(ds) ==
    IF Len(ds) = 0 THEN 0
    ELSE 10 * ParseInt(SubSeq(ds, 1, Len(ds) - 1)) + ds[Len(ds)]

RECURSIVE StringLess(_, _)
\* order of two strings of digits as the database compares text
StringLess(a, b) ==
    IF Len(a) = 0 THEN Len(b) > 0
    ELSE IF Len(b) = 0 THEN FALSE
    ELSE IF a[1] # b[1] THEN a[1] < b[1]
    ELSE StringLess(Tail(a), Tail(b))

\* filter(po_number__startswith='#ORD-<year>-')
PoOfYear(numbers, year) == {n \in numbers : n.year = year}

\* .order_by('-po_number').first(), of a non-empty queryset
LastPo(numbers, year) ==
    CHOOSE n \in PoOfYear(numbers, year) :
        \A m \in PoOfYear(numbers, year) : m = n \/ StringLess(m.seq, n.seq)

NextSequence(numbers, year) ==
    IF PoOfYear(numbers, year) = {} THEN 1
    ELSE ParseInt(LastPo(numbers, year).seq) + 1

Years == {"2025", "2026"}
FollowingYear(y) == IF y = "2025" THEN "2026" ELSE y

\* PurchaseOrder.save(), the `with transaction.atomic()` block: reads the
\* highest number of the year and sets self.po_number
POAssignNumber(c) ==
    /\ poPc[c] = "new"
    /\ poNumber' = [poNumber EXCEPT ![c] =
          [year |-> current_year,
           seq |-> FormatSequence(NextSequence(po_numbers, current_year))]]
    /\ poPc' = [poPc EXCEPT ![c] = "numbered"]
    /\ UNCHANGED <<po_numbers, current_year, poResult>>
    /\ UNCHANGED otherThanPO

\* PurchaseOrder.save(), super().save(): the INSERT, under the unique
\* constraint of po_number
POInsert(c) ==
    /\ poPc[c] = "numbered"
    /\ IF poNumber[c] \in po_numbers
       THEN /\ poResult' = [poResult EXCEPT ![c] = "500"]
            /\ UNCHANGED po_numbers
       ELSE /\ poResult' = [poResult EXCEPT ![c] = "201"]
            /\ po_numbers' = po_numbers \cup {poNumber[c]}
    /\ poPc' = [poPc EXCEPT ![c] = "done"]
    /\ UNCHANGED <<current_year, poNumber>>
    /\ UNCHANGED otherThanPO

\* the calendar year changes
NewYear ==
    /\ FollowingYear(current_year) # current_year
    /\ current_year' = FollowingYear(current_year)
    /\ UNCHANGED <<po_numbers, poPc, poNumber, poResult>>
    /\ UNCHANGED otherThanPO

\* tables the earlier, one-at-a-time creations of the year left behind
InitialPoTables ==
    { {[year |-> "2025", seq |-> FormatSequence(n)] : n \in 1..k} : k \in 0..2 }

InitPO ==
    /\ po_numbers \in InitialPoTables
    /\ current_year = "2025"
    /\ poPc = [c \in Creators |-> "new"]
    /\ poNumber = [c \in Creators |-> [year |-> None, seq |-> <<>>]]
    /\ poResult = [c \in Creators |-> None]

NextPO ==
    \/ \E c \in Creators : POAssignNumber(c)
    \/ \E c \in Creators : POInsert(c)
    \/ NewYear

\* ================================================= payments: gateway webhook
Truthy(text) == text # None /\ text # ""

\* `not payment_amount`: an absent amount and the number 0 are both falsy
TruthyAmount(amount) == amount.present /\ amount.value # 0

PayloadAmounts ==
    {[present |-> FALSE, value |-> 0]} \cup
    {[present |-> TRUE, value |-> v] : v \in 0..MaxAmount}

WebhookPayloads ==
    [control_number : ControlNumbers \cup {"cn9", None},
     transaction_id : TxIds \cup {None},
     amount : PayloadAmounts]

\* post(): `if not cn or not transaction_id or not payment_amount`
InvalidStructure(data) ==
    \/ ~Truthy(data.control_number)
    \/ ~Truthy(data.transaction_id)
    \/ ~TruthyAmount(data.amount)

\* LocalPaymentDetails.objects.get(control_number=cn).payment
PaymentOf(cn) == CHOOSE p \in Payments : control_number[p] = cn

LockAlwaysFree(lock) == TRUE

\* select_for_update(): the row is free, or the handler waits
LockFree(lock) == lock = None

Reply(code, detail) == [code |-> code, detail |-> detail]

\* post() up to the loading of payment and order: the structure check, the
\* locked lookup of LocalPaymentDetails, and the reads of payment and order
WebhookReceive(d, data) ==
    /\ webhookPc[d] = "new"
    /\ webhookData' = [webhookData EXCEPT ![d] = data]
    /\ IF InvalidStructure(data)
       THEN /\ webhookResponse' = [webhookResponse EXCEPT ![d] =
                   Reply("400", "Invalid webhook data structure.")]
            /\ webhookPc' = [webhookPc EXCEPT ![d] = "done"]
            /\ UNCHANGED <<rowLock, webhookSeen>>
       ELSE IF \A p \in Payments : control_number[p] # data.control_number
       THEN /\ webhookResponse' = [webhookResponse EXCEPT ![d] =
                   Reply("404", "Control Number not found.")]
            /\ webhookPc' = [webhookPc EXCEPT ![d] = "done"]
            /\ UNCHANGED <<rowLock, webhookSeen>>
       ELSE LET p == PaymentOf(data.control_number)
            IN /\ LockFree(rowLock[p])
               /\ rowLock' = [rowLock EXCEPT ![p] = d]
               /\ webhookSeen' = [webhookSeen EXCEPT ![d] =
                      [status |-> payment_status[p],
                       transaction_id |-> payment_transaction_id[p]]]
               /\ webhookPc' = [webhookPc EXCEPT ![d] = "locked"]
               /\ UNCHANGED webhookResponse
    /\ UNCHANGED <<payment_status, payment_transaction_id, amount_due, payment_order,
                   control_number, expiry_time, now, order_status, fulfillCount,
                   cnRequest, cnResponse>>
    /\ UNCHANGED otherThanPayment

NeverProcessed(status) == FALSE

\* `if payment.status == 'SUCCESS'`
AlreadyProcessed(status) == status = "SUCCESS"

ExpiredOneTickLate(expiry, time) == expiry + 1 < time

\* LocalPaymentDetails.is_expired()
is_expired(expiry, time) == expiry < time

\* float(payment_amount) != float(payment.amount_due); amounts are counted in
\* the smallest unit of the DecimalField, which float() keeps apart
AmountMismatch(payment_amount, due) == payment_amount # due

WebhookOutcomeMismatchExpires(status, expired, mismatch) ==
    IF AlreadyProcessed(status) THEN "processed"
    ELSE IF expired \/ mismatch THEN "expired"
    ELSE "success"

WebhookOutcomeExpiryFirst(status, expired, mismatch) ==
    IF expired THEN "expired"
    ELSE IF AlreadyProcessed(status) THEN "processed"
    ELSE IF mismatch THEN "mismatch"
    ELSE "success"

\* the order of the checks of post(), steps 2 to 4
WebhookOutcome(status, expired, mismatch) ==
    IF AlreadyProcessed(status) THEN "processed"
    ELSE IF expired THEN "expired"
    ELSE IF mismatch THEN "mismatch"
    ELSE "success"

TransactionIdNeverTaken(p, transaction_id) == FALSE

\* the unique constraint of Payment.transaction_id
TransactionIdTaken(p, transaction_id) ==
    \E q \in Payments \ {p} : payment_transaction_id[q] = transaction_id

\* what order.save(update_fields=['order_status']) in fulfill_order can do
OrderSaveOutcomes == {"saved", "DatabaseError"}

\* post(), from the idempotency check to the end of the transaction, which
\* releases the row lock.  A database error inside order.save() is caught by
\* fulfill_order, but Model.save_base has marked the transaction for
\* rollback: leaving the atomic block then rolls back the payment as well,
\* and the response built inside the block is returned.
WebhookProcess(d, order_save) ==
    /\ webhookPc[d] = "locked"
    /\ LET data == webhookData[d]
           p == PaymentOf(data.control_number)
           outcome == WebhookOutcome(webhookSeen[d].status,
                                     is_expired(expiry_time[p], now),
                                     AmountMismatch(data.amount.value, amount_due[p]))
       IN /\ CASE outcome = "processed" ->
                    /\ webhookResponse' = [webhookResponse EXCEPT ![d] =
                           Reply("200", "Payment already processed.")]
                    /\ UNCHANGED <<payment_status, payment_transaction_id,
                                   order_status, fulfillCount>>
               [] outcome = "expired" ->
                    \* payment.save() writes every field of the loaded object
                    /\ payment_status' = [payment_status EXCEPT ![p] = "EXPIRED"]
                    /\ payment_transaction_id' =
                           [payment_transaction_id EXCEPT ![p] =
                               webhookSeen[d].transaction_id]
                    /\ webhookResponse' = [webhookResponse EXCEPT ![d] =
                           Reply("400", "Control number expired.")]
                    /\ UNCHANGED <<order_status, fulfillCount>>
               [] outcome = "mismatch" ->
                    /\ webhookResponse' = [webhookResponse EXCEPT ![d] =
                           Reply("200", "Amount mismatch acknowledged.")]
                    /\ UNCHANGED <<payment_status, payment_transaction_id,
                                   order_status, fulfillCount>>
               [] outcome = "success" ->
                    IF TransactionIdTaken(p, data.transaction_id)
                    THEN \* IntegrityError: rolled back, caught by `except Exception`
                         /\ webhookResponse' = [webhookResponse EXCEPT ![d] =
                                Reply("500", "Internal Server Error during processing.")]
                         /\ UNCHANGED <<payment_status, payment_transaction_id,
                                        order_status, fulfillCount>>
                    ELSE IF order_save = "DatabaseError"
                    THEN /\ fulfillCount' = [fulfillCount EXCEPT ![p] = @ + 1]
                         /\ webhookResponse' = [webhookResponse EXCEPT ![d] =
                                Reply("200", "Payment and fulfillment acknowledged.")]
                         /\ UNCHANGED <<payment_status, payment_transaction_id,
                                        order_status>>
                    ELSE /\ payment_status' = [payment_status EXCEPT ![p] = "SUCCESS"]
                         /\ payment_transaction_id' =
                                [payment_transaction_id EXCEPT ![p] = data.transaction_id]
                         \* fulfill_order(order, transaction_id)
                         /\ order_status' = [order_status EXCEPT ![payment_order[p]] = "PAID"]
                         /\ fulfillCount' = [fulfillCount EXCEPT ![p] = @ + 1]
                         /\ webhookResponse' = [webhookResponse EXCEPT ![d] =
                                Reply("200", "Payment and fulfillment acknowledged.")]
          /\ rowLock' = [rowLock EXCEPT ![p] = IF @ = d THEN None ELSE @]
    /\ webhookPc' = [webhookPc EXCEPT ![d] = "done"]
    /\ UNCHANGED <<amount_due, payment_order, control_number, expiry_time, now,
                   webhookData, webhookSeen, cnRequest, cnResponse>>
    /\ UNCHANGED otherThanPayment

\* order.total_amount: Order has no such attribute (its total is order_total)
TotalAmountRaises == TRUE

\* ControlNumberGenerationView.create, one transaction: 404 unless the order
\* is PENDING; then Payment.objects.create(amount_due=order.total_amount)
\* raises AttributeError and the request is rolled back
ControlNumberCreate(order_id) ==
    /\ cnRequest' = order_id
    /\ cnResponse' = IF order_id \notin Orders \/ order_status[order_id] # "PENDING"
                     THEN "404"
                     ELSE IF TotalAmountRaises THEN "500" ELSE "201"
    /\ <<cnRequest', cnResponse'>> # <<cnRequest, cnResponse>>
    /\ UNCHANGED <<payment_status, payment_transaction_id, amount_due, payment_order,
                   control_number, expiry_time, now, order_status, fulfillCount,
                   rowLock, webhookPc, webhookData, webhookSeen, webhookResponse>>
    /\ UNCHANGED otherThanPayment

\* timezone.now() moves on
Tick ==
    /\ now < MaxTime
    /\ now' = now + 1
    /\ UNCHANGED <<payment_status, payment_transaction_id, amount_due, payment_order,
                   control_number, expiry_time, order_status, fulfillCount,
                   rowLock, webhookPc, webhookData, webhookSeen, webhookResponse,
                   cnRequest, cnResponse>>
    /\ UNCHANGED otherThanPayment

NoPayload == [control_number |-> None, transaction_id |-> None,
              amount |-> [present |-> FALSE, value |-> 0]]

\* handlers and clock at rest
PaymentAtRest ==
    /\ now = 0
    /\ rowLock = [p \in Payments |-> None]
    /\ fulfillCount = [p \in Payments |-> 0]
    /\ webhookPc = [d \in Deliveries |-> "new"]
    /\ webhookData = [d \in Deliveries |-> NoPayload]
    /\ webhookSeen = [d \in Deliveries |-> [status |-> None, transaction_id |-> None]]
    /\ webhookResponse = [d \in Deliveries |-> Reply(None, None)]
    /\ cnRequest = None
    /\ cnResponse = None

\* two payment attempts waiting for the customer, each with its control
\* number, for one order or for two
InitPayment ==
    /\ payment_status = [p \in Payments |-> "WAITING_PAYMENT"]
    /\ payment_transaction_id = [p \in Payments |-> None]
    /\ amount_due \in {[p \in Payments |-> IF p = "pay1" THEN a ELSE MaxAmount] :
                          a \in (MaxAmount - 1)..MaxAmount}
    /\ payment_order \in {[p \in Payments |-> IF p = "pay1" THEN "o1" ELSE o] : o \in Orders}
    /\ control_number = [p \in Payments |-> IF p = "pay1" THEN "cn1" ELSE "cn2"]
    /\ expiry_time \in [Payments -> 0..(MaxTime - 1)]
    /\ order_status = [o \in Orders |-> "PENDING"]
    /\ PaymentAtRest

NextPayment ==
    \/ \E d \in Deliveries, data \in WebhookPayloads : WebhookReceive(d, data)
    \/ \E d \in Deliveries : WebhookProcess(d, "saved")
    \/ \E order_id \in Orders \cup {"o9"} : ControlNumberCreate(order_id)
    \/ Tick

\* the same requests, with a database that can fail the order update
NextPaymentFault ==
    \/ \E d \in Deliveries, data \in WebhookPayloads : WebhookReceive(d, data)
    \/ \E d \in Deliveries, order_save \in OrderSaveOutcomes : WebhookProcess(d, order_save)
    \/ \E order_id \in Orders \cup {"o9"} : ControlNumberCreate(order_id)
    \/ Tick

\* ======================================================= licence: assign key
\* filter(product_id=..., is_assigned=False), in Meta.ordering
Unassigned(product) ==
    {k \in Licenses : license_product[k] = product /\ ~is_assigned[k]}

\* .first(): the oldest row of the queryset, or None
FirstUnassigned(product) ==
    IF Unassigned(product) = {} THEN None
    ELSE CHOOSE k \in Unassigned(product) :
            \A j \in Unassigned(product) : j = k \/ (k = "k1")

\* post() up to the locked lookup: the serializer refuses an unknown
\* product, get_object_or_404 an unknown order; select_for_update() waits
\* for the row it returns
AssignLookup(c, order_id, product_id) ==
    /\ assignPc[c] = "new"
    /\ assignRequest' = [assignRequest EXCEPT ![c] =
          [order_id |-> order_id, digital_product_id |-> product_id]]
    /\ IF product_id \notin DigitalProducts
       THEN /\ assignResponse' = [assignResponse EXCEPT ![c] = "400"]
            /\ assignPc' = [assignPc EXCEPT ![c] = "done"]
            /\ UNCHANGED <<licenseLock, assignLicense>>
       ELSE IF order_id \notin Orders
       THEN /\ assignResponse' = [assignResponse EXCEPT ![c] = "404"]
            /\ assignPc' = [assignPc EXCEPT ![c] = "done"]
            /\ UNCHANGED <<licenseLock, assignLicense>>
       ELSE LET k == FirstUnassigned(product_id)
            IN /\ k # None => licenseLock[k] = None
               /\ licenseLock' = IF k = None THEN licenseLock
                                 ELSE [licenseLock EXCEPT ![k] = c]
               /\ assignLicense' = [assignLicense EXCEPT ![c] = k]
               /\ assignPc' = [assignPc EXCEPT ![c] = "locked"]
               /\ UNCHANGED assignResponse
    /\ UNCHANGED <<is_assigned, assigned_to_order, license_product, digital_access>>
    /\ UNCHANGED otherThanLicence

\* license.assigned_at = timezone.now(): views.py never imports timezone
TimezoneNameRaises == TRUE

AssignRaisesWithoutKeyOnly(license, access_exists) == license = None

\* what makes post() raise after the lookup: no key was found (license is
\* None), the name timezone, or the unique_together of CustomerDigitalAccess
AssignRaises(license, access_exists) ==
    license = None \/ TimezoneNameRaises \/ access_exists

\* post() from the assignment to the end of the transaction; an exception
\* rolls everything back and is answered 500
AssignFinish(c) ==
    /\ assignPc[c] = "locked"
    /\ LET k == assignLicense[c]
           order == assignRequest[c].order_id
           access == [product |-> assignRequest[c].digital_product_id, order |-> order]
       IN /\ IF AssignRaises(k, access \in digital_access)
             THEN /\ assignResponse' = [assignResponse EXCEPT ![c] = "500"]
                  /\ UNCHANGED <<is_assigned, assigned_to_order, digital_access>>
             ELSE /\ is_assigned' = [is_assigned EXCEPT ![k] = TRUE]
                  /\ assigned_to_order' = [assigned_to_order EXCEPT ![k] = order]
                  /\ digital_access' = digital_access \cup {access}
                  /\ assignResponse' = [assignResponse EXCEPT ![c] = "200"]
          /\ licenseLock' = [j \in Licenses |->
                                IF licenseLock[j] = c THEN None ELSE licenseLock[j]]
    /\ assignPc' = [assignPc EXCEPT ![c] = "done"]
    /\ UNCHANGED <<license_product, assignRequest, assignLicense>>
    /\ UNCHANGED otherThanLicence

\* callers at rest
LicenceAtRest ==
    /\ digital_access = {}
    /\ licenseLock = [k \in Licenses |-> None]
    /\ assignPc = [c \in Callers |-> "new"]
    /\ assignRequest = [c \in Callers |-> [order_id |-> None, digital_product_id |-> None]]
    /\ assignLicense = [c \in Callers |-> None]
    /\ assignResponse = [c \in Callers |-> None]

\* keys as the staff upload leaves them: none assigned
InitLicence ==
    /\ license_product \in [Licenses -> DigitalProducts]
    /\ is_assigned = [k \in Licenses |-> FALSE]
    /\ assigned_to_order = [k \in Licenses |-> None]
    /\ LicenceAtRest

NextLicence ==
    \/ \E c \in Callers, order_id \in Orders \cup {"o9"},
          product_id \in DigitalProducts \cup {"dp9"} :
          AssignLookup(c, order_id, product_id)
    \/ \E c \in Callers : AssignFinish(c)

\* ============================== purchasing: purchase order create and update
\* a line item as the client submits it; id 0: no id given
SubmittedItem ==
    [id : 0..MaxItems, product : Products,
     quantity_ordered : OrderedQuantities, unit_cost : UnitCosts]

SubmittedItemLists == UNION {[1..n -> SubmittedItem] : n \in 0..MaxItems}

ValidatedItemKeepingId(item) == item

\* PurchaseOrderItemSerializer.Meta.read_only_fields holds 'id': the
\* validated data of a line carries no id
ValidatedItem(item) ==
    [product |-> item.product, quantity_ordered |-> item.quantity_ordered,
     unit_cost |-> item.unit_cost]

ValidatedItems(items) == [i \in 1..Len(items) |-> ValidatedItem(items[i])]

\* item_data.get('id')
ItemId(item_data) == IF "id" \in DOMAIN item_data THEN item_data.id ELSE 0

RECURSIVE calculate_order_total(_)
\* whole-unit costs, on which the float arithmetic of the code is exact
calculate_order_total(items_data) ==
    IF Len(items_data) = 0 THEN 0
    ELSE calculate_order_total(SubSeq(items_data, 1, Len(items_data) - 1))
         + items_data[Len(items_data)].quantity_ordered
           * items_data[Len(items_data)].unit_cost

\* the unique_together of PurchaseOrderItem: (purchase_order, product)
ProductListed(rows, product) == \E x \in rows : x.product = product

RECURSIVE CreateItems(_, _, _, _)
\* PurchaseOrderItem.objects.create for each line in turn, each in its own
\* autocommit; stops at the first IntegrityError.  Returns the rows, the
\* last id, the ids created and whether every line was created.
CreateItems(items_data, i, table, kept) ==
    IF i > Len(items_data)
    THEN [rows |-> table.rows, seq |-> table.seq, kept |-> kept, ok |-> TRUE]
    ELSE IF ProductListed(table.rows, items_data[i].product)
    THEN [rows |-> table.rows, seq |-> table.seq, kept |-> kept, ok |-> FALSE]
    ELSE CreateItems(items_data, i + 1,
            [rows |-> table.rows \cup
                 {[id |-> table.seq + 1, product |-> items_data[i].product,
                   quantity_ordered |-> items_data[i].quantity_ordered,
                   unit_cost |-> items_data[i].unit_cost]},
             seq |-> table.seq + 1],
            kept \cup {table.seq + 1})

\* POST /purchase-orders/: validate_items refuses an empty list; create()
\* stores the header with the total of the submitted lines, then the lines
POCreate(items) ==
    /\ ~po_saved
    /\ editCount < MaxEdits
    /\ editCount' = editCount + 1
    /\ editRequest' = [op |-> "create", items |-> items, po_status |-> None]
    /\ IF items = <<>>
       THEN /\ editResponse' = "400"
            /\ UNCHANGED <<po_saved, order_total, purchase_order_items, itemSeq>>
       ELSE LET items_data == ValidatedItems(items)
                made == CreateItems(items_data, 1,
                           [rows |-> purchase_order_items, seq |-> itemSeq], {})
            IN /\ po_saved' = TRUE
               /\ order_total' = calculate_order_total(items_data)
               /\ purchase_order_items' = made.rows
               /\ itemSeq' = made.seq
               /\ editResponse' = IF made.ok THEN "201" ELSE "500"
    /\ UNCHANGED <<po_status, received_items, item_accounted>>
    /\ UNCHANGED otherThanEdit

\* update(), the loop over the submitted lines: a line whose id is an item
\* of this order is updated in place, any other line is created
RECURSIVE ReconcileItems(_, _, _, _)
ReconcileItems(items_data, i, table, kept) ==
    IF i > Len(items_data)
    THEN [rows |-> table.rows, seq |-> table.seq, kept |-> kept, ok |-> TRUE]
    ELSE IF ItemId(items_data[i]) # 0
            /\ \E x \in table.rows : x.id = ItemId(items_data[i])
    THEN LET old == CHOOSE x \in table.rows : x.id = ItemId(items_data[i])
             others == table.rows \ {old}
         IN IF ProductListed(others, items_data[i].product)
            THEN [rows |-> table.rows, seq |-> table.seq, kept |-> kept, ok |-> FALSE]
            ELSE ReconcileItems(items_data, i + 1,
                    [rows |-> others \cup
                         {[id |-> old.id, product |-> items_data[i].product,
                           quantity_ordered |-> items_data[i].quantity_ordered,
                           unit_cost |-> items_data[i].unit_cost]},
                     seq |-> table.seq],
                    kept \cup {old.id})
    ELSE IF ProductListed(table.rows, items_data[i].product)
    THEN [rows |-> table.rows, seq |-> table.seq, kept |-> kept, ok |-> FALSE]
    ELSE ReconcileItems(items_data, i + 1,
            [rows |-> table.rows \cup
                 {[id |-> table.seq + 1, product |-> items_data[i].product,
                   quantity_ordered |-> items_data[i].quantity_ordered,
                   unit_cost |-> items_data[i].unit_cost]},
             seq |-> table.seq + 1],
            kept \cup {table.seq + 1})

\* Sum(models.F('unit_cost') * models.F('quantity_ordered')): serializers.py
\* imports neither models nor F
ModelsNameRaises == TRUE

\* PUT/PATCH /purchase-orders/<pk>/ with `items`: validate_items refuses an
\* empty list; update() changes the lines statement by statement (no
\* transaction), deletes the lines not kept (ProtectedError when one of them
\* has receptions) and then stops at the name `models`, before order_total
\* and the header are saved
POUpdateItems(items) ==
    /\ po_saved
    /\ editCount < MaxEdits
    /\ editCount' = editCount + 1
    /\ editRequest' = [op |-> "update", items |-> items, po_status |-> None]
    /\ IF items = <<>>
       THEN /\ editResponse' = "400"
            /\ UNCHANGED <<purchase_order_items, itemSeq>>
       ELSE LET done == ReconcileItems(ValidatedItems(items), 1,
                           [rows |-> purchase_order_items, seq |-> itemSeq], {})
                dropped == {x \in done.rows : x.id \notin done.kept}
            IN /\ itemSeq' = done.seq
               /\ purchase_order_items' =
                     IF done.ok /\ (\A x \in dropped : x.id \notin received_items)
                     THEN done.rows \ dropped
                     ELSE done.rows
               /\ editResponse' = "500"
    /\ ModelsNameRaises
    /\ UNCHANGED <<po_saved, order_total, po_status, received_items, item_accounted>>
    /\ UNCHANGED otherThanEdit

\* PATCH /purchase-orders/<pk>/ without `items`: the header is saved
POUpdateHeader(status) ==
    /\ po_saved
    /\ editCount < MaxEdits
    /\ editCount' = editCount + 1
    /\ editRequest' = [op |-> "update", items |-> <<>>, po_status |-> status]
    /\ po_status' = status
    /\ editResponse' = "200"
    /\ UNCHANGED <<po_saved, order_total, purchase_order_items, itemSeq, received_items,
                   item_accounted>>
    /\ UNCHANGED otherThanEdit

\* ids the PurchaseOrderItem table can give out in one behaviour
ItemIds == 1..(MaxEdits * MaxItems)

\* a StockReception of n units is recorded against an item of the order;
\* StockReception.clean lets it pass while the grand total accounted for
\* does not exceed quantity_ordered
ItemReceived(id, n) ==
    /\ \E x \in purchase_order_items :
          /\ x.id = id
          /\ GrandTotalAccounted(item_accounted[id], n, 0) <= x.quantity_ordered
    /\ received_items' = received_items \cup {id}
    /\ item_accounted' = [item_accounted EXCEPT ![id] = @ + n]
    /\ UNCHANGED <<po_saved, order_total, po_status, purchase_order_items, itemSeq,
                   editCount, editRequest, editResponse>>
    /\ UNCHANGED otherThanEdit

InitEdit ==
    /\ po_saved = FALSE
    /\ order_total = 0
    /\ po_status = "DRAFT"
    /\ purchase_order_items = {}
    /\ itemSeq = 0
    /\ received_items = {}
    /\ item_accounted = [id \in ItemIds |-> 0]
    /\ editCount = 0
    /\ editRequest = [op |-> None, items |-> <<>>, po_status |-> None]
    /\ editResponse = None

\* requests of one line each, interleaved with receptions
SingleItemLists == [1..1 -> SubmittedItem]

NextEditReceive ==
    \/ \E items \in SingleItemLists : POCreate(items)
    \/ \E items \in SingleItemLists : POUpdateItems(items)
    \/ \E id \in ItemIds : ItemReceived(id, 1)

NextEdit ==
    \/ \E items \in SubmittedItemLists : POCreate(items)
    \/ \E items \in SubmittedItemLists : POUpdateItems(items)
    \/ \E status \in PoStatuses : POUpdateHeader(status)
    \/ \E id \in ItemIds : ItemReceived(id, 1)

\* ================================================ shipping: shipment requests
\* order.physical_items of an order with n lines
ItemsOfOrder(o, n) == {[id |-> <<o, i>>, quantity |-> 1] : i \in 1..n}

ShipmentUntouched ==
    UNCHANGED <<physical_items, shipment_requests, shipments, shipment_line_items,
                shipmentSeq>>

\* InternalShipmentRequestSerializer.create up to the idempotency check:
\* Order.objects.get raises DoesNotExist for an unknown order (500), an order
\* without physical items is refused (400)
ShipmentRequestCheck(c, order_id) ==
    /\ shipPc[c] = "new"
    /\ shipOrder' = [shipOrder EXCEPT ![c] = order_id]
    /\ IF order_id \notin Orders
       THEN /\ shipResponse' = [shipResponse EXCEPT ![c] = "500"]
            /\ shipPc' = [shipPc EXCEPT ![c] = "done"]
            /\ UNCHANGED shipSawRequest
       ELSE IF physical_items[order_id] = {}
       THEN /\ shipResponse' = [shipResponse EXCEPT ![c] = "400"]
            /\ shipPc' = [shipPc EXCEPT ![c] = "done"]
            /\ UNCHANGED shipSawRequest
       ELSE /\ shipSawRequest' =
                  [shipSawRequest EXCEPT ![c] = order_id \in shipment_requests]
            /\ shipPc' = [shipPc EXCEPT ![c] = "checked"]
            /\ UNCHANGED shipResponse
    /\ ShipmentUntouched
    /\ UNCHANGED otherThanShipping

\* post() reads shipment.request of what save() returned; for an existing
\* request create() returns the ShipmentRequest, which has no such attribute
RequestAttributeRaises == TRUE

\* the rest of create() and of post().  With an existing request: the
\* ShipmentRequest is returned and post() raises.  Otherwise the request row
\* is inserted (IntegrityError on the one-to-one order when another call
\* committed one since the check), then the Shipment and its line items.
ShipmentRequestCreate(c) ==
    /\ shipPc[c] = "checked"
    /\ shipPc' = [shipPc EXCEPT ![c] = "done"]
    /\ LET order == shipOrder[c]
       IN IF shipSawRequest[c]
          THEN /\ shipResponse' = [shipResponse EXCEPT ![c] =
                      IF RequestAttributeRaises THEN "500" ELSE "201"]
               /\ ShipmentUntouched
          ELSE IF order \in shipment_requests
          THEN /\ shipResponse' = [shipResponse EXCEPT ![c] = "500"]
               /\ ShipmentUntouched
          ELSE /\ shipment_requests' = shipment_requests \cup {order}
               /\ shipmentSeq' = shipmentSeq + 1
               /\ shipments' = shipments \cup
                     {[id |-> shipmentSeq + 1, request |-> order, status |-> "PENDING"]}
               /\ shipment_line_items' = shipment_line_items \cup
                     {[shipment |-> shipmentSeq + 1, order_item |-> item.id,
                       quantity |-> item.quantity] : item \in physical_items[order]}
               /\ shipResponse' = [shipResponse EXCEPT ![c] = "201"]
               /\ UNCHANGED physical_items
    /\ UNCHANGED <<shipOrder, shipSawRequest>>
    /\ UNCHANGED otherThanShipping

ShippingAtRest ==
    /\ shipment_requests = {}
    /\ shipments = {}
    /\ shipment_line_items = {}
    /\ shipmentSeq = 0
    /\ shipPc = [c \in ShipCallers |-> "new"]
    /\ shipOrder = [c \in ShipCallers |-> None]
    /\ shipSawRequest = [c \in ShipCallers |-> FALSE]
    /\ shipResponse = [c \in ShipCallers |-> None]

\* paid orders, none of which has a shipment request yet
InitShipping ==
    /\ physical_items \in
          {[o \in Orders |-> ItemsOfOrder(o, n[o])] :
              n \in [Orders -> 0..MaxPhysicalItems]}
    /\ ShippingAtRest

NextShipping ==
    \/ \E c \in ShipCallers, order_id \in Orders \cup {"o9"} :
          ShipmentRequestCheck(c, order_id)
    \/ \E c \in ShipCallers : ShipmentRequestCreate(c)

\* ================================================== accounts: one-time codes
\* Otp.objects.filter(phone_number=..., token_type=..., is_used=False)
UnusedOtps(phone_number, token_type) ==
    {o \in otps : /\ o.phone_number = phone_number
                  /\ o.token_type = token_type
                  /\ ~o.is_used}

\* .latest('created_at'): a row whose created_at none of the others exceeds
Latest(rows) == {o \in rows : \A p \in rows : p.created_at <= o.created_at}

\* otp_entry.expires_at < timezone.now()
OtpExpired(otp_entry, time) == otp_entry.expires_at < time

\* generate_new_otp with Otp.generate_new_code: the account is looked up (any
\* account for registration, a verified one otherwise), every Otp of the user
\* and token_type is deleted and a new one with a random code is created
OtpGenerate(token_type) ==
    /\ otpSeq < MaxOtps
    /\ IF token_type # "registration" /\ ~user_is_verified
       THEN /\ otpResponse' = "404"
            /\ UNCHANGED <<otps, otpSeq>>
       ELSE /\ \E new_code \in OtpCodes :
                 otps' = {o \in otps : ~(o.user = OtpUser /\ o.token_type = token_type)}
                         \cup {[id |-> otpSeq + 1,
                                user |-> OtpUser,
                                phone_number |-> OtpPhone,
                                code |-> new_code,
                                token_type |-> token_type,
                                is_used |-> FALSE,
                                expires_at |-> otpNow + OTP_EXPIRATION_TIME_MINUTES,
                                created_at |-> otpNow]}
            /\ otpSeq' = otpSeq + 1
            /\ otpResponse' = "200"
    /\ UNCHANGED <<otpNow, user_is_verified, verifyPc, verifyRequest, verifyEntry,
                   verifyResponse>>
    /\ UNCHANGED otherThanOtp

\* verify_otp up to its first write: the latest unused Otp of the phone and
\* token_type is read (400 when there is none), its code is compared (400 on a
\* mismatch) and its expiry is tested; no lock is taken and no transaction is
\* open
OtpVerifyRead(v, code, token_type) ==
    /\ verifyPc[v] = "idle"
    /\ verifyRequest' = [verifyRequest EXCEPT ![v] = [code |-> code, token_type |-> token_type]]
    /\ LET rows == UnusedOtps(OtpPhone, token_type) IN
       IF rows = {}
       THEN /\ verifyResponse' = [verifyResponse EXCEPT ![v] = "400"]
            /\ UNCHANGED <<verifyPc, verifyEntry>>
       ELSE \E otp_entry \in Latest(rows) :
               IF otp_entry.code # code
               THEN /\ verifyResponse' = [verifyResponse EXCEPT ![v] = "400"]
                    /\ UNCHANGED <<verifyPc, verifyEntry>>
               ELSE /\ verifyPc' = [verifyPc EXCEPT ![v] =
                           IF OtpExpired(otp_entry, otpNow) THEN "expired" ELSE "matched"]
                    /\ verifyEntry' = [verifyEntry EXCEPT ![v] = otp_entry]
                    /\ verifyResponse' = [verifyResponse EXCEPT ![v] = None]
    /\ UNCHANGED <<otps, otpSeq, otpNow, user_is_verified, otpResponse>>
    /\ UNCHANGED otherThanOtp

\* the rest of verify_otp: an expired entry is marked used and refused; a
\* matching one verifies the account (registration), is marked used and
\* accepted.  otp_entry.save() writes the object the call holds: it updates
\* the row of that primary key, and inserts it when the row is gone
OtpVerifySave(v) ==
    /\ verifyPc[v] \in {"matched", "expired"}
    /\ LET otp_entry == [verifyEntry[v] EXCEPT !.is_used = TRUE] IN
          otps' = {o \in otps : o.id # otp_entry.id} \cup {otp_entry}
    /\ user_is_verified' =
          IF verifyPc[v] = "matched" /\ verifyRequest[v].token_type = "registration"
          THEN TRUE ELSE user_is_verified
    /\ verifyResponse' = [verifyResponse EXCEPT ![v] =
          IF verifyPc[v] = "matched" THEN "200" ELSE "400"]
    /\ verifyPc' = [verifyPc EXCEPT ![v] = "idle"]
    /\ verifyEntry' = [verifyEntry EXCEPT ![v] = None]
    /\ UNCHANGED <<otpSeq, otpNow, otpResponse, verifyRequest>>
    /\ UNCHANGED otherThanOtp

\* time passes
OtpTick ==
    /\ otpNow < MaxOtpTime
    /\ otpNow' = otpNow + 1
    /\ UNCHANGED <<otps, otpSeq, user_is_verified, otpResponse, verifyPc,
                   verifyRequest, verifyEntry, verifyResponse>>
    /\ UNCHANGED otherThanOtp

OtpAtRest ==
    /\ otps = {}
    /\ otpSeq = 0
    /\ otpNow = 0
    /\ otpResponse = None
    /\ verifyPc = [v \in OtpCallers |-> "idle"]
    /\ verifyRequest = [v \in OtpCallers |-> None]
    /\ verifyEntry = [v \in OtpCallers |-> None]
    /\ verifyResponse = [v \in OtpCallers |-> None]

\* an account that has just registered, or one that is verified already
InitOtp ==
    /\ OtpAtRest
    /\ user_is_verified \in BOOLEAN

NextOtp ==
    \/ \E token_type \in TokenTypes : OtpGenerate(token_type)
    \/ \E v \in OtpCallers, code \in OtpCodes, token_type \in TokenTypes :
          OtpVerifyRead(v, code, token_type)
    \/ \E v \in OtpCallers : OtpVerifySave(v)
    \/ OtpTick

\* ======================================================== the specifications
vars == <<stockVars, receptionVars, poVars, paymentVars, licenceVars, editVars,
          shippingVars, otpVars>>

IdleOtp ==
    /\ OtpAtRest
    /\ user_is_verified = TRUE

\* a subsystem no request reaches
IdleShipping ==
    /\ physical_items = [o \in Orders |-> {}]
    /\ ShippingAtRest

IdleStock ==
    /\ quantity_in_stock = [s \in SKUs |-> 0]
    /\ initial_stock = quantity_in_stock
    /\ stockMovements = <<>>
    /\ sales = <<>>
    /\ inventory_updates = [p \in Processes |-> <<>>]
    /\ process = [w \in Requests |-> "p1"]
    /\ pc = [w \in Requests |-> "new"]
    /\ request = [w \in Requests |-> [kind |-> None]]
    /\ snapshot = [w \in Requests |-> 0]
    /\ response = [w \in Requests |-> None]

IdleReception ==
    /\ quantity_ordered = [i \in POItems |-> 1]
    /\ receptions = {}
    /\ receptionSeq = 0
    /\ receptionRequest = [op |-> None, pk |-> 0, purchase_order_item |-> None,
                           quantity_received |-> 0, decayed_products |-> 0]
    /\ receptionResponse = None

IdlePO ==
    /\ po_numbers = {}
    /\ current_year = "2025"
    /\ poPc = [c \in Creators |-> "new"]
    /\ poNumber = [c \in Creators |-> [year |-> None, seq |-> <<>>]]
    /\ poResult = [c \in Creators |-> None]

IdlePayment ==
    /\ payment_status = [p \in Payments |-> "WAITING_PAYMENT"]
    /\ payment_transaction_id = [p \in Payments |-> None]
    /\ amount_due = [p \in Payments |-> 1]
    /\ payment_order = [p \in Payments |-> "o1"]
    /\ control_number = [p \in Payments |-> IF p = "pay1" THEN "cn1" ELSE "cn2"]
    /\ expiry_time = [p \in Payments |-> 0]
    /\ order_status = [o \in Orders |-> "PENDING"]
    /\ PaymentAtRest

IdleLicence ==
    /\ license_product = [k \in Licenses |-> "dp1"]
    /\ is_assigned = [k \in Licenses |-> FALSE]
    /\ assigned_to_order = [k \in Licenses |-> None]
    /\ LicenceAtRest

\* inventory: POS sales, manual adjustments, customer order checkout
Init == InitStock /\ IdleReception /\ IdlePO /\ IdlePayment /\ IdleLicence /\ InitEdit /\ IdleShipping /\ IdleOtp
Next == NextStock
Spec == Init /\ [][Next]_vars

\* POS sales alone
InitPOS == InitSales /\ IdleReception /\ IdlePO /\ IdlePayment /\ IdleLicence
           /\ InitEdit /\ IdleShipping /\ IdleOtp
NextPOS == NextSales
SpecSales == InitPOS /\ [][NextPOS]_vars

\* stock receptions, one request at a time
InitR == InitReception /\ IdleStock /\ IdlePO /\ IdlePayment /\ IdleLicence /\ InitEdit /\ IdleShipping /\ IdleOtp
NextR == NextReception
SpecReception == InitR /\ [][NextR]_vars

\* concurrent purchase-order creation
InitP == InitPO /\ IdleStock /\ IdleReception /\ IdlePayment /\ IdleLicence /\ InitEdit /\ IdleShipping /\ IdleOtp
NextP == NextPO
SpecPO == InitP /\ [][NextP]_vars

\* gateway webhooks and control-number requests
InitW == InitPayment /\ IdleStock /\ IdleReception /\ IdlePO /\ IdleLicence /\ InitEdit /\ IdleShipping /\ IdleOtp
NextW == NextPayment
SpecPayment == InitW /\ [][NextW]_vars

\* the same, when the order update of fulfill_order can fail
NextWF == NextPaymentFault
SpecPaymentFault == InitW /\ [][NextWF]_vars

\* concurrent license-key assignment
InitL == InitLicence /\ IdleStock /\ IdleReception /\ IdlePO /\ IdlePayment /\ InitEdit /\ IdleShipping /\ IdleOtp
NextL == NextLicence
SpecLicence == InitL /\ [][NextL]_vars

\* internal shipment requests
InitS == InitShipping /\ IdleStock /\ IdleReception /\ IdlePO /\ IdlePayment
         /\ IdleLicence /\ InitEdit /\ IdleOtp
NextS == NextShipping
SpecShipping == InitS /\ [][NextS]_vars

\* one purchase order: creation, updates, receptions against its items
InitE == InitEdit /\ IdleStock /\ IdleReception /\ IdlePO /\ IdlePayment /\ IdleLicence /\ IdleShipping /\ IdleOtp
NextE == NextEdit
SpecPOEdit == InitE /\ [][NextE]_vars

\* one-time codes of one account: generation, concurrent verification, time
InitO == InitOtp /\ IdleStock /\ IdleReception /\ IdlePO /\ IdlePayment
         /\ IdleLicence /\ InitEdit /\ IdleShipping
NextO == NextOtp
SpecOtp == InitO /\ [][NextO]_vars

\* the same purchase order, edited one line at a time between receptions
NextER == NextEditReceive
SpecPOReceive == InitE /\ [][NextER]_vars

\* =================================================== inventory: the claims

\* C1 (as claimed): in every reachable state quantity_in_stock of every SKU
\* equals its initial quantity plus the sum of quantity_change over the
\* StockMovement rows of that SKU.
C1_LedgerConsistency ==
    \A s \in SKUs : quantity_in_stock[s] = initial_stock[s] + LedgerSum(s)

\* C2 (as claimed): quantity_in_stock is never committed negative, whatever
\* the interleaving of sales, adjustments and checkouts.
C2_StockNeverNegative ==
    \A s \in SKUs : quantity_in_stock[s] >= 0

\* a line of `items` asks for more than `stock` holds of its SKU
HasInsufficientLine(items, stock) ==
    \E i \in 1..Len(items) : items[i].quantity > stock[items[i].product_specification]

\* C3: a POS sale request with a line whose quantity exceeds the stock of its
\* SKU fails entirely: the step that receives it answers 400, ends the
\* request, and leaves the Sale/SaleItem rows, the StockMovement rows and
\* quantity_in_stock of every SKU as they were.
C3_SaleAllOrNothing ==
    [][\A r \in Requests :
          ( /\ pc[r] = "new"
            /\ pc'[r] # "new"
            /\ request'[r].kind = "sale"
            /\ HasInsufficientLine(request'[r].items, quantity_in_stock) )
          => ( /\ pc'[r] = "done"
               /\ response'[r] = "400"
               /\ sales' = sales
               /\ stockMovements' = stockMovements
               /\ quantity_in_stock' = quantity_in_stock )]_vars

\* C3 witness: a two-line request whose first line had enough stock and whose
\* second line had not was refused, and nothing was written.
C3_Witness ==
    \E r \in Requests :
        /\ pc[r] = "done"
        /\ response[r] = "400"
        /\ request[r].kind = "sale"
        /\ Len(request[r].items) = 2
        /\ request[r].items[1].product_specification
              # request[r].items[2].product_specification
        /\ request[r].items[1].quantity
              <= quantity_in_stock[request[r].items[1].product_specification]
        /\ request[r].items[2].quantity
              > quantity_in_stock[request[r].items[2].product_specification]
        /\ sales = <<>>
        /\ stockMovements = <<>>
        /\ quantity_in_stock = initial_stock

\* request r is a committed one-line POS sale of SKU s
CommittedSaleOf(r, s) ==
    /\ pc[r] = "done"
    /\ response[r] = "201"
    /\ request[r].kind = "sale"
    /\ Len(request[r].items) = 1
    /\ request[r].items[1].product_specification = s

\* C4 (as claimed): when two POS sales of the same SKU both commit, with
\* quantities q1 and q2 from stock s, the stock ends at s - q1 - q2 and
\* q1 + q2 <= s (the second was checked against what the first left).
C4_ConcurrentSalesSerialize ==
    \A a, b \in Requests, s \in SKUs :
        ( /\ a # b
          /\ CommittedSaleOf(a, s)
          /\ CommittedSaleOf(b, s)
          /\ \A k \in 1..Len(stockMovements) : stockMovements[k].movement_type = "SALE" )
        => LET q1 == request[a].items[1].quantity
               q2 == request[b].items[1].quantity
           IN /\ quantity_in_stock[s] = initial_stock[s] - q1 - q2
              /\ q1 + q2 <= initial_stock[s]

\* ================================================== purchasing: the claims

\* what the receptions of one purchase-order item account for
AccountedFor(item) ==
    SumAccounted({x \in receptions : x.purchase_order_item = item})

\* a create or update request that, added to the other receptions of its
\* item, would account for more than the item ordered
WouldExceed(req) ==
    /\ req.op \in {"create", "update"}
    /\ SumAccounted({x \in receptions :
                        x.purchase_order_item = req.purchase_order_item /\ x.pk # req.pk})
         + req.quantity_received + req.decayed_products
       > quantity_ordered[req.purchase_order_item]

\* C5: after any sequence of reception creates and updates (and deletions),
\* the receptions of every purchase-order item account for at most
\* quantity_ordered (received + decayed, summed); a create or update that
\* would break the bound is answered 400 and persists nothing.
C5_ReceptionBound ==
    /\ [](\A i \in POItems : AccountedFor(i) <= quantity_ordered[i])
    /\ [][WouldExceed(receptionRequest')
             => /\ receptionResponse' = "400"
                /\ receptions' = receptions
                /\ receptionSeq' = receptionSeq]_vars

\* C5's case: an item fully accounted for by two receptions, one of them
\* with decayed units, and a further reception of one unit refused
C5_Witness ==
    \E i \in POItems :
        /\ AccountedFor(i) = quantity_ordered[i]
        /\ Cardinality({x \in receptions : x.purchase_order_item = i}) = 2
        /\ \A x \in receptions : x.purchase_order_item = i => x.quantity_received > 0
        /\ \E x \in receptions : x.purchase_order_item = i /\ x.decayed_products > 0
        /\ receptionRequest.op = "create"
        /\ receptionRequest.purchase_order_item = i
        /\ receptionRequest.quantity_received = 1
        /\ receptionRequest.decayed_products = 0
        /\ receptionResponse = "400"

\* C6: every purchase-order create request that has finished was committed,
\* and the numbers the concurrent creators of one year were given are
\* distinct.
C6_ConcurrentNumbering ==
    \A c \in Creators :
        poPc[c] = "done" =>
            /\ poResult[c] = "201"
            /\ \A e \in Creators \ {c} :
                  poPc[e] = "done" => poNumber[e] # poNumber[c]

\* the (SKU, quantity) pairs of a sequence of lines or sale items
LinePairs(lines) ==
    {<<lines[k].product_specification, lines[k].quantity>> : k \in 1..Len(lines)}

\* no SKU on two lines
DistinctSkus(lines) ==
    \A i, j \in 1..Len(lines) :
        i # j => lines[i].product_specification # lines[j].product_specification

\* the total quantity a request asks for one SKU
RECURSIVE RequestedQty(_, _)
RequestedQty(lines, sku) ==
    IF lines = <<>> THEN 0
    ELSE (IF lines[Len(lines)].product_specification = sku
          THEN lines[Len(lines)].quantity ELSE 0)
         + RequestedQty(SubSeq(lines, 1, Len(lines) - 1), sku)

\* request w commits its sale in this step
CommitsSale(w) ==
    /\ pc[w] = "sale_validated"
    /\ pc'[w] = "done"
    /\ response'[w] = "201"

\* C26: a sale that commits (its request naming no SKU twice) stores exactly
\* the SKUs and quantities of its own request as SaleItems, and decrements
\* the stock of each SKU by the quantity its own request asked for.
C26_SaleRequestsIsolated ==
    [][\A w \in Requests :
          (CommitsSale(w) /\ DistinctSkus(request[w].items))
          => /\ Len(sales') = Len(sales) + 1
             /\ LinePairs(sales'[Len(sales')].items) = LinePairs(request[w].items)
             /\ \A s \in SKUs :
                   quantity_in_stock'[s] =
                      quantity_in_stock[s] - RequestedQty(request[w].items, s)]_vars

RECURSIVE ItemsTotal(_)
ItemsTotal(items) ==
    IF items = <<>> THEN 0
    ELSE items[Len(items)].quantity * items[Len(items)].unit_price
         + ItemsTotal(SubSeq(items, 1, Len(items) - 1))

\* C27: a sale that commits while no other request is in progress on its
\* process stores a total_amount equal to the sum of quantity * unit_price
\* over its SaleItems, and decrements each SKU by the total quantity its
\* request asked for that SKU.
C27_SaleInternallyConsistent ==
    [][\A w \in Requests :
          (/\ CommitsSale(w)
           /\ \A v \in Requests \ {w} : pc[v] = "new")
          => /\ sales'[Len(sales')].total_amount = ItemsTotal(sales'[Len(sales')].items)
             /\ \A s \in SKUs :
                   quantity_in_stock'[s] =
                      quantity_in_stock[s] - RequestedQty(request[w].items, s)]_vars

\* the total quantity an order asks for one SKU
RECURSIVE OrderedQty(_, _)
OrderedQty(physical, sku) ==
    IF physical = <<>> THEN 0
    ELSE (IF physical[Len(physical)].product = sku
          THEN physical[Len(physical)].quantity ELSE 0)
         + OrderedQty(SubSeq(physical, 1, Len(physical) - 1), sku)

C24_AdjustmentAndSaleBothCount ==
    \A w, v \in Requests :
        (/\ pc[w] = "done" /\ pc[v] = "done"
         /\ request[w].kind = "adjust" /\ response[w] = "200"
         /\ request[v].kind = "sale" /\ response[v] = "201"
         /\ Len(request[v].items) = 1
         /\ request[v].items[1].product_specification = request[w].product_sku)
        => quantity_in_stock[request[w].product_sku] =
              initial_stock[request[w].product_sku]
              + request[w].adjustment_quantity - request[v].items[1].quantity

\* ==================================================== payments: the claims

\* the delivery d is the handler leaving the locked section in this step
LeavesLockedSection(d) == webhookPc[d] = "locked" /\ webhookPc'[d] = "done"

PaymentUntouched ==
    /\ payment_status' = payment_status
    /\ payment_transaction_id' = payment_transaction_id
    /\ order_status' = order_status
    /\ fulfillCount' = fulfillCount

PaidInFull(d) ==
    /\ webhookPc[d] = "done"
    /\ ~InvalidStructure(webhookData[d])
    /\ webhookData[d].control_number \in ControlNumbers
    /\ webhookData[d].amount.value =
          amount_due[PaymentOf(webhookData[d].control_number)]

\* C8: fulfill_order runs at most once per Payment; and of two deliveries for
\* the same control number, both with the amount due and neither refused as
\* expired, exactly one made the transition to SUCCESS and called
\* fulfill_order, and the other was answered "Payment already processed.".
C8_ConcurrentWebhooksSerialize ==
    /\ \A p \in Payments : fulfillCount[p] <= 1
    /\ \A d, e \in Deliveries :
          (/\ d # e
           /\ PaidInFull(d) /\ PaidInFull(e)
           /\ webhookData[d].control_number = webhookData[e].control_number
           /\ webhookResponse[d].code # "400" /\ webhookResponse[e].code # "400")
          => /\ fulfillCount[PaymentOf(webhookData[d].control_number)] = 1
             /\ {webhookResponse[d].detail, webhookResponse[e].detail} =
                   {"Payment and fulfillment acknowledged.",
                    "Payment already processed."}

\* C8's case: two deliveries for one control number, with different
\* transaction ids; the second loaded the payment after the first committed
C8_Witness ==
    \E d, e \in Deliveries :
        /\ d # e
        /\ PaidInFull(d) /\ PaidInFull(e)
        /\ webhookData[d].control_number = webhookData[e].control_number
        /\ webhookData[d].transaction_id # webhookData[e].transaction_id
        /\ webhookResponse[d].detail = "Payment and fulfillment acknowledged."
        /\ webhookResponse[e].detail = "Payment already processed."
        /\ webhookSeen[e].status = "SUCCESS"

\* C9: once a Payment is SUCCESS, no step of the system (a webhook, also one
\* after expiry_time or with another amount or transaction id; a
\* control-number request) changes its status or its transaction_id.
C9_SuccessTerminal ==
    [][\A p \in Payments :
          payment_status[p] = "SUCCESS"
          => /\ payment_status'[p] = "SUCCESS"
             /\ payment_transaction_id'[p] = payment_transaction_id[p]]_vars

\* C9's case: a webhook with another amount and transaction id was handled
\* after the expiry time of a control number whose payment was SUCCESS, and
\* a control-number request for the paid order was made
C9_Witness ==
    \E d, e \in Deliveries :
        /\ d # e
        /\ webhookResponse[d].detail = "Payment and fulfillment acknowledged."
        /\ webhookPc[e] = "done"
        /\ webhookSeen[e].status = "SUCCESS"
        /\ webhookData[e].control_number = webhookData[d].control_number
        /\ webhookData[e].transaction_id # webhookData[d].transaction_id
        /\ webhookData[e].amount # webhookData[d].amount
        /\ is_expired(expiry_time[PaymentOf(webhookData[d].control_number)], now)
        /\ cnRequest = payment_order[PaymentOf(webhookData[d].control_number)]
        /\ payment_status[PaymentOf(webhookData[d].control_number)] = "SUCCESS"
        /\ payment_transaction_id[PaymentOf(webhookData[d].control_number)] =
              webhookData[d].transaction_id

\* C10: a webhook for a control number that is not expired, whose Payment is
\* WAITING_PAYMENT and whose amount differs from amount_due, leaves
\* Payment.status, transaction_id and Order.order_status as they were, calls
\* no fulfillment, and is answered 200.
C10_AmountMismatchAcknowledged ==
    [][\A d \in Deliveries :
          LET data == webhookData'[d]
          IN (/\ webhookPc[d] # "done" /\ webhookPc'[d] = "done"
              /\ Truthy(data.transaction_id)
              /\ data.control_number \in ControlNumbers
              /\ data.amount.present
              /\ payment_status[PaymentOf(data.control_number)] = "WAITING_PAYMENT"
              /\ ~is_expired(expiry_time[PaymentOf(data.control_number)], now)
              /\ data.amount.value # amount_due[PaymentOf(data.control_number)])
             => /\ PaymentUntouched
                /\ webhookResponse'[d].code = "200"]_vars

\* the status changes of the payment state machine
AllowedStatusChange(from, to) ==
    \/ from = "PENDING" /\ to \in {"WAITING_PAYMENT", "FAILED"}
    \/ from = "WAITING_PAYMENT" /\ to \in {"SUCCESS", "FAILED", "EXPIRED"}
    \/ to = "CANCELLED"

\* C17: every change of a Payment's status is a transition of the state
\* machine PENDING -> WAITING_PAYMENT -> {SUCCESS | FAILED | EXPIRED} (any
\* state -> CANCELLED): a Payment becomes SUCCESS only from WAITING_PAYMENT,
\* and an EXPIRED or FAILED Payment never becomes SUCCESS afterwards.
C17_PaymentStateMachine ==
    [][\A p \in Payments :
          /\ payment_status'[p] # payment_status[p]
                => AllowedStatusChange(payment_status[p], payment_status'[p])
          /\ payment_status[p] \in {"EXPIRED", "FAILED"}
                => payment_status'[p] # "SUCCESS"]_vars

\* C17's case: a payment became EXPIRED, and a later webhook with the amount
\* due and a transaction id found it EXPIRED and left it so
C17_Witness ==
    \E d, e \in Deliveries :
        /\ d # e
        /\ webhookData[d].control_number = webhookData[e].control_number
        /\ webhookResponse[d] = Reply("400", "Control number expired.")
        /\ webhookSeen[d].status = "WAITING_PAYMENT"
        /\ PaidInFull(e)
        /\ webhookSeen[e].status = "EXPIRED"
        /\ payment_status[PaymentOf(webhookData[e].control_number)] = "EXPIRED"

\* C18: a control-number request for an existing order in PENDING state is
\* answered 201 (Payment WAITING_PAYMENT with its LocalPaymentDetails) or 503
\* (gateway failure, Payment FAILED).
C18_ControlNumberIssued ==
    [][(/\ <<cnRequest', cnResponse'>> # <<cnRequest, cnResponse>>
        /\ cnRequest' \in Orders
        /\ order_status[cnRequest'] = "PENDING")
       => cnResponse' \in {"201", "503"}]_vars

C20_FulfillmentFailureKeepsPayment ==
    [][\A d \in Deliveries :
          LET p == PaymentOf(webhookData[d].control_number)
          IN (/\ LeavesLockedSection(d)
              /\ webhookResponse'[d] =
                    Reply("200", "Payment and fulfillment acknowledged."))
             => /\ payment_status'[p] = "SUCCESS"
                /\ payment_transaction_id'[p] = webhookData[d].transaction_id]_vars

\* C23: a Payment has a transaction_id exactly when it is SUCCESS, no two
\* Payments have the same transaction_id, and a webhook whose transaction_id
\* is recorded on another Payment does not make its own Payment SUCCESS.
C23_TransactionIdOnlyOnSuccess ==
    /\ [](\A p \in Payments :
            /\ (payment_transaction_id[p] # None) <=> (payment_status[p] = "SUCCESS")
            /\ \A q \in Payments \ {p} :
                  payment_transaction_id[p] = payment_transaction_id[q]
                     => payment_transaction_id[p] = None)
    /\ [][\A d \in Deliveries :
            LET p == PaymentOf(webhookData[d].control_number)
            IN (/\ LeavesLockedSection(d)
                /\ payment_status[p] # "SUCCESS"
                /\ \E q \in Payments \ {p} :
                      payment_transaction_id[q] = webhookData[d].transaction_id)
               => payment_status'[p] # "SUCCESS"]_vars

\* C23's case: the amount due of a waiting payment arrived with the
\* transaction id of another, paid Payment; it was answered 500 and the
\* payment is still waiting
C23_Witness ==
    \E d \in Deliveries :
        LET p == PaymentOf(webhookData[d].control_number)
        IN /\ PaidInFull(d)
           /\ webhookResponse[d].code = "500"
           /\ payment_status[p] = "WAITING_PAYMENT"
           /\ payment_transaction_id[p] = None
           /\ \E q \in Payments \ {p} :
                 /\ payment_status[q] = "SUCCESS"
                 /\ payment_transaction_id[q] = webhookData[d].transaction_id

\* C28: no two Payments of one Order are SUCCESS, and an Order is PAID only
\* if one of its Payments is SUCCESS.
C28_OneSuccessfulPaymentPerOrder ==
    /\ \A p, q \in Payments :
          (p # q /\ payment_order[p] = payment_order[q])
             => ~(payment_status[p] = "SUCCESS" /\ payment_status[q] = "SUCCESS")
    /\ \A o \in Orders :
          order_status[o] = "PAID"
             => \E p \in Payments :
                   payment_order[p] = o /\ payment_status[p] = "SUCCESS"

\* ===================================================== licence: the claims

LicensesOf(product) == {k \in Licenses : license_product[k] = product}

\* C11: with exactly one unassigned license for a product, two concurrent
\* assign-key calls for that product (and existing orders) end with exactly
\* one success, the license assigned to the order of the successful call,
\* and one failure.
C11_LicenseExclusivity ==
    \A a, b \in Callers :
        (/\ a # b
         /\ assignPc[a] = "done" /\ assignPc[b] = "done"
         /\ assignRequest[a].digital_product_id = assignRequest[b].digital_product_id
         /\ assignRequest[a].order_id \in Orders
         /\ assignRequest[b].order_id \in Orders
         /\ Cardinality(LicensesOf(assignRequest[a].digital_product_id)) = 1)
        => \E w \in {a, b} :
              /\ assignResponse[w] = "200"
              /\ \A l \in {a, b} \ {w} : assignResponse[l] # "200"
              /\ \A k \in LicensesOf(assignRequest[a].digital_product_id) :
                    is_assigned[k] /\ assigned_to_order[k] = assignRequest[w].order_id

\* C12: whatever assign-key calls were made, at most one license of a
\* product is assigned to any one order.
C12_OneLicensePerOrderProduct ==
    \A o \in Orders, p \in DigitalProducts :
        Cardinality({k \in Licenses :
                        license_product[k] = p /\ assigned_to_order[k] = o}) <= 1

\* C12's case: two finished calls for the same order and product, made while
\* the product had two keys
C12_Witness ==
    \E a, b \in Callers :
        /\ a # b
        /\ assignPc[a] = "done" /\ assignPc[b] = "done"
        /\ assignRequest[a] = assignRequest[b]
        /\ assignRequest[a].order_id \in Orders
        /\ Cardinality(LicensesOf(assignRequest[a].digital_product_id)) = 2

\* --------------------------------------------------- purchasing: order edits
RECURSIVE LineSum(_)
LineSum(rows) ==
    IF rows = {} THEN 0
    ELSE LET x == CHOOSE x \in rows : TRUE
         IN x.unit_cost * x.quantity_ordered + LineSum(rows \ {x})

\* C13: once a create or an update of the purchase order has been answered
\* with success, order_total is the sum of unit_cost * quantity_ordered over
\* the current line items of the order.
C13_OrderTotalIsSum ==
    (po_saved /\ editResponse \in {"200", "201"})
        => order_total = LineSum(purchase_order_items)

\* a submission the diff rule is defined on: no product twice, no id twice,
\* every id given is the id of a line of the order
WellFormedSubmission(items, rows) ==
    /\ items # <<>>
    /\ \A i, j \in 1..Len(items) :
          i # j => /\ items[i].product # items[j].product
                   /\ (items[i].id = 0 \/ items[i].id # items[j].id)
    /\ \A i \in 1..Len(items) :
          items[i].id = 0 \/ \E x \in rows : x.id = items[i].id

SameValues(row, item) ==
    /\ row.product = item.product
    /\ row.quantity_ordered = item.quantity_ordered
    /\ row.unit_cost = item.unit_cost

\* C16: an update with line items updates in place the lines whose id was
\* submitted, creates the lines submitted without id and deletes the lines
\* whose id was not submitted.
C16_ReconcileByIdentifier ==
    [][(/\ editCount' = editCount + 1
        /\ editRequest'.op = "update"
        /\ WellFormedSubmission(editRequest'.items, purchase_order_items))
       => LET items == editRequest'.items
          IN /\ \A i \in 1..Len(items) :
                   IF items[i].id # 0
                   THEN \E y \in purchase_order_items' :
                           y.id = items[i].id /\ SameValues(y, items[i])
                   ELSE \E y \in purchase_order_items' :
                           /\ SameValues(y, items[i])
                           /\ \A x \in purchase_order_items : x.id # y.id
             /\ \A x \in purchase_order_items :
                   (\A i \in 1..Len(items) : items[i].id # x.id)
                      => \A y \in purchase_order_items' : y.id # x.id]_vars


C14_ReceptionFeedsLedger ==
    [][(/\ receptionRequest'.op = "create"
        /\ receptionSeq' = receptionSeq + 1
        /\ receptionRequest'.quantity_received > 0)
       => \E sku \in SKUs :
             /\ quantity_in_stock'[sku] =
                   quantity_in_stock[sku] + receptionRequest'.quantity_received
             /\ Len(stockMovements') = Len(stockMovements) + 1
             /\ stockMovements'[Len(stockMovements')].product = sku
             /\ stockMovements'[Len(stockMovements')].movement_type = "RESTOCK"
             /\ stockMovements'[Len(stockMovements')].quantity_change =
                   receptionRequest'.quantity_received]_vars

\* C15: every persisted reception accounts for at least one unit.
C15_NoAllZeroReception ==
    \A x \in receptions : x.quantity_received + x.decayed_products > 0


\* C21: an assign-key call for a known order and product that found no
\* unassigned license is answered 404 (no license key available) and leaves
\* the licenses and the digital accesses as they were.
C21_NoLicenseAvailable ==
    [][\A c \in Callers :
          (/\ assignPc[c] = "locked" /\ assignPc'[c] = "done"
           /\ assignLicense[c] = None)
          => /\ assignResponse'[c] = "404"
             /\ UNCHANGED <<is_assigned, assigned_to_order, digital_access>>]_vars


\* ==================================================== shipping: the claims
\* C22: every finished shipment-request call for an order with physical items
\* was answered 201, and the order has exactly one ShipmentRequest, one
\* Shipment, and one ShipmentLineItem per physical item.
C22_ShipmentRequestIdempotent ==
    \A c \in ShipCallers :
        (/\ shipPc[c] = "done"
         /\ shipOrder[c] \in Orders
         /\ physical_items[shipOrder[c]] # {})
        => /\ shipResponse[c] = "201"
           /\ shipOrder[c] \in shipment_requests
           /\ Cardinality({x \in shipments : x.request = shipOrder[c]}) = 1
           /\ \A x \in shipments :
                 x.request = shipOrder[c]
                 => {[order_item |-> y.order_item, quantity |-> y.quantity] :
                        y \in {z \in shipment_line_items : z.shipment = x.id}}
                    = {[order_item |-> i.id, quantity |-> i.quantity] :
                        i \in physical_items[shipOrder[c]]}


\* ================================================== one-time codes: the claim

\* C25 (as claimed): verify_otp answers 200 only for the latest unused Otp of
\* the phone and token_type, with the code of the request and before its
\* expiry; and at the moment a verification succeeds its Otp is still in the
\* table and unused, so that an Otp that has verified once, and an Otp that a
\* later generation of the same user and token_type replaced, never verify.
C25_OtpSingleUse ==
    [][\A v \in OtpCallers :
          /\ (verifyPc[v] = "idle" /\ verifyPc'[v] = "matched") =>
                /\ verifyEntry'[v] \in Latest(UnusedOtps(OtpPhone, verifyRequest'[v].token_type))
                /\ verifyEntry'[v].code = verifyRequest'[v].code
                /\ verifyEntry'[v].expires_at >= otpNow
          /\ (verifyPc[v] = "matched" /\ verifyResponse'[v] = "200") =>
                \E o \in otps : o.id = verifyEntry[v].id /\ ~o.is_used
    ]_vars

====
